---------------------------- MODULE Spec2Model ----------------------------
(***************************************************************************)
(* Request data path of the API gateway: APIKeyAuthentication,             *)
(* APIKeyRateThrottle (counter in the shared cache), ProxyView._proxy      *)
(* (service lookup, one upstream call, RequestLog row, relayed response).  *)
(*                                                                         *)
(* Every worker handles one request at a time; the steps of a request are  *)
(* its I/O operations (database lookup, cache get / ttl / set / incr,      *)
(* upstream exchange, RequestLog insert), which interleave freely with the *)
(* steps of the other workers, with the passing of time (cache expiry)     *)
(* and with the administrator's edits of the is_active flags.              *)
(*                                                                         *)
(* Python strings that are built by concatenation are sequences of         *)
(* string pieces; None is the marker below.                                *)
(***************************************************************************)
EXTENDS Integers, Sequences, FiniteSets, TLC

VARIABLES
    apiKeys,        \* rows of gateway.models.APIKey
    services,       \* rows of gateway.models.Service
    cache,          \* the shared cache: cache key -> entry
    requestLog,     \* rows of gateway.models.RequestLog, in insertion order
    req,            \* per worker: the request being handled and its locals
    upstreamCalls,  \* number of http_client.request exchanges performed
    nRequests,      \* requests received so far
    expired,        \* history: some cache entry has expired
    viewCall        \* a method of ProxyView applied on its own: input and result

vars == <<apiKeys, services, cache, requestLog, req, upstreamCalls,
          nRequests, expired, viewCall>>

-----------------------------------------------------------------------------
(* Bounds of the model *)

MaxRequests == 2
MaxConcRequests == 3
TickStep == 1800
MaxHeaders == 2
MaxNewKeys == 2
MaxInFlight == 3
MaxRaceChecks == 4

(* Program constants *)

RATE_LIMIT == 100
PERIOD_IN_SECONDS == 3600
UPSTREAM_ERROR_STATUS == 502

None == "None"

Workers == { 1, 2 }

\* Values of the X-API-KEY header: <<>> is "header absent".
InitialAPIKeys ==
    { [pk |-> 1, name |-> "Client A", key |-> "k1", is_active |-> TRUE],
      [pk |-> 2, name |-> "Client B", key |-> "k2", is_active |-> FALSE] }

InitialServices ==
    { [slug |-> "httpbin", base_url |-> <<"https://httpbin.org">>, is_active |-> TRUE],
      [slug |-> "legacy", base_url |-> <<"https://example.com", "/">>, is_active |-> FALSE] }

\* The requests of the model: X-API-KEY header (<<>> is "header absent"),
\* service_slug, method and path.
Request(header, slug, method, path) ==
    [header |-> header, slug |-> slug, method |-> method, path |-> path]

RequestInputs ==
    { Request(<<>>, "httpbin", "GET", <<"get">>),
      Request(<<"">>, "httpbin", "GET", <<"get">>),
      Request(<<"bad">>, "nonexistent", "GET", <<"get">>),
      Request(<<"k2">>, "httpbin", "GET", <<"get">>),
      Request(<<"k1">>, "httpbin", "GET", <<"get">>),
      Request(<<"k1">>, "httpbin", "POST", <<"status", "/", "500">>),
      Request(<<"k1">>, "httpbin", "TRACE", <<"get">>),
      Request(<<"k1">>, "legacy", "GET", <<"get">>),
      Request(<<"k1">>, "nonexistent", "GET", <<"get">>) }

\* What the upstream may answer.
UpstreamAnswers ==
    { [status |-> 200, body |-> <<"{\"origin\": \"1.2.3.4\"}">>],
      [status |-> 302, body |-> <<>>],
      [status |-> 404, body |-> <<"not found">>],
      [status |-> 500, body |-> <<>>] }
TransportErrors == { "Connection refused", "Read timed out" }


-----------------------------------------------------------------------------
(* Python values *)

\* `not x` for a header value: None and the empty string are falsy.
Falsy(x) == x = None \/ x = ""

\* `wait if wait else ...` for the integer django-redis reports: 0 is falsy,
\* every other integer (a negative one too) is truthy.
Truthy(n) == n # 0

\* request.META.get(HEADER): the value, or None when the header is absent.
MetaGet(header) == IF header = <<>> THEN None ELSE header[1]

NoAuth == [pk |-> 0, name |-> None, key |-> None, is_active |-> FALSE]
NoUser == [api_key |-> NoAuth, pk |-> 0, is_authenticated |-> FALSE]
NoOutcome == [ok |-> FALSE, status |-> 0, body |-> <<>>, exc |-> ""]
NoService == [slug |-> None, base_url |-> <<>>, is_active |-> FALSE]
NoResponse == [status |-> 0, code |-> "", detail |-> "", body |-> <<>>, wait |-> 0]
NoKey == <<>>

-----------------------------------------------------------------------------
(* The cache (django_redis.cache.RedisCache), as throttling.py uses it *)

Absent == [present |-> FALSE, value |-> 0, ttl |-> 0]

\* Mutant of get_cache_key: one key for every credential.
get_cache_key_shared(auth) ==
    IF auth = NoAuth THEN NoKey ELSE <<"throttle:api_key:", "k1">>

get_cache_key(auth) ==
    IF auth = NoAuth THEN NoKey ELSE <<"throttle:api_key:", auth.key>>

CacheKeys == { get_cache_key(r) : r \in InitialAPIKeys }

\* cache.get(key, default)
CacheGet(c, key, default) == IF c[key].present THEN c[key].value ELSE default

\* cache.ttl(key): 0 for a key that does not exist, else the seconds left.
CacheTtl(c, key) == IF c[key].present THEN c[key].ttl ELSE 0

\* Mutant of CacheSet: a set on an entry that is there adds to its count
\* instead of replacing it.
CacheSetAdding(c, key, value, timeout) ==
    [c EXCEPT ![key] = [present |-> TRUE,
                        value |-> IF c[key].present THEN c[key].value + value
                                  ELSE value,
                        ttl |-> timeout]]

\* Mutant of CacheSet: an entry that is there is left alone (SET NX).
CacheSetIfAbsent(c, key, value, timeout) ==
    IF c[key].present THEN c
    ELSE [c EXCEPT ![key] = [present |-> TRUE, value |-> value, ttl |-> timeout]]

\* cache.set(key, value, timeout=timeout)
CacheSet(c, key, value, timeout) ==
    [c EXCEPT ![key] = [present |-> TRUE, value |-> value, ttl |-> timeout]]

\* Mutant of CacheIncr: a missing key is created at 1 with no expiry, as
\* the INCR of Redis does on its own.
CacheIncrUpsert(c, key) ==
    IF c[key].present
    THEN [raised |-> FALSE, cache |-> [c EXCEPT ![key].value = @ + 1]]
    ELSE [raised |-> FALSE,
          cache |-> [c EXCEPT ![key] = [present |-> TRUE, value |-> 1, ttl |-> 0]]]

\* Mutant of CacheIncr: the count stops at the limit.
CacheIncrCapped(c, key) ==
    IF c[key].present
    THEN [raised |-> FALSE,
          cache |-> [c EXCEPT ![key].value = IF @ < RATE_LIMIT THEN @ + 1 ELSE @]]
    ELSE [raised |-> TRUE, cache |-> c]

\* cache.incr(key): adds 1 and keeps the expiry; ValueError for a missing key.
CacheIncr(c, key) ==
    IF c[key].present
    THEN [raised |-> FALSE, cache |-> [c EXCEPT ![key].value = @ + 1]]
    ELSE [raised |-> TRUE, cache |-> c]

\* TickStep seconds pass: every entry's time-to-live shrinks, and an entry
\* whose time-to-live is used up is gone.
Elapse(c) ==
    [k \in DOMAIN c |->
        IF c[k].present /\ c[k].ttl > TickStep
        THEN [c[k] EXCEPT !.ttl = @ - TickStep]
        ELSE Absent]

-----------------------------------------------------------------------------
(* authentication.py *)

\* APIKeyUser(api_key)
APIKeyUser(api_key) ==
    [api_key |-> api_key, pk |-> api_key.pk, is_authenticated |-> TRUE]

MissingKeyFailure ==
    [ok |-> FALSE, user |-> NoUser, auth |-> NoAuth,
     detail |-> "Missing API key. Include it in the X-API-KEY header.",
     code |-> "missing_api_key"]

InvalidKeyFailure ==
    [ok |-> FALSE, user |-> NoUser, auth |-> NoAuth,
     detail |-> "Invalid or inactive API key.",
     code |-> "invalid_api_key"]

\* Mutant of ActiveAPIKeys: the lookup ignores is_active.
APIKeysAnyFlag(keys, key) == { r \in keys : r.key = key }

\* APIKey.objects.get(key=key, is_active=True): the matching rows.
ActiveAPIKeys(keys, key) == { r \in keys : r.key = key /\ r.is_active }

\* Mutant of Authenticate: a deactivated key gets a failure of its own.
AuthenticateLeaky(header, keys) ==
    LET key == MetaGet(header) IN
    IF Falsy(key) THEN MissingKeyFailure
    ELSE IF ActiveAPIKeys(keys, key) # {}
    THEN LET api_key == CHOOSE r \in ActiveAPIKeys(keys, key) : TRUE IN
         [ok |-> TRUE, user |-> APIKeyUser(api_key), auth |-> api_key,
          detail |-> "", code |-> ""]
    ELSE IF \E r \in keys : r.key = key
    THEN [ok |-> FALSE, user |-> NoUser, auth |-> NoAuth,
          detail |-> "API key is inactive.", code |-> "inactive_api_key"]
    ELSE InvalidKeyFailure

\* APIKeyAuthentication.authenticate
Authenticate(header, keys) ==
    LET key == MetaGet(header) IN
    IF Falsy(key) THEN MissingKeyFailure
    ELSE IF ActiveAPIKeys(keys, key) = {} THEN InvalidKeyFailure
    ELSE LET api_key == CHOOSE r \in ActiveAPIKeys(keys, key) : TRUE IN
         [ok |-> TRUE, user |-> APIKeyUser(api_key), auth |-> api_key,
          detail |-> "", code |-> ""]

\* The 401 response made of an AuthenticationFailed (authenticate_header is
\* defined, so the status is 401).
AuthFailedResponse(failure) ==
    [status |-> 401, code |-> failure.code, detail |-> failure.detail,
     body |-> <<"{\"detail\": \"", failure.detail, "\"}">>, wait |-> 0]

-----------------------------------------------------------------------------
(* throttling.py *)

\* Mutant of ReadCount: a missing entry reads as the limit.
ReadCountDefaultLimit(c, key) == CacheGet(c, key, RATE_LIMIT)

\* allow_request, line 38: the count read, 0 for a missing entry.
ReadCount(c, key) == CacheGet(c, key, 0)

\* Mutant of OverLimit: the comparison is strict.
OverLimitStrict(current) == current > RATE_LIMIT

\* allow_request, lines 39-41: is the count read at or over the limit?
OverLimit(current) == current >= RATE_LIMIT

\* Mutant of ThrottledWait: no fallback to the period.
ThrottledWaitNoFallback(wait) == wait

\* allow_request, line 41: the wait carried by Throttled.
ThrottledWait(wait) == IF Truthy(wait) THEN wait ELSE PERIOD_IN_SECONDS

\* The 429 response made of Throttled(wait).
ThrottledResponse(wait) ==
    [status |-> 429, code |-> "throttled", detail |-> "Request was throttled.",
     body |-> <<"{\"detail\": \"Request was throttled.\"}">>, wait |-> wait]

\* Mutant of WriteCall: the window starts at 0.
WriteCallFromZero(key, current) ==
    IF current = 0
    THEN [name |-> "set", key |-> key, value |-> 0, timeout |-> PERIOD_IN_SECONDS]
    ELSE [name |-> "incr", key |-> key, value |-> 0, timeout |-> 0]

\* Mutant of WriteCall: the count is written back with a new expiry
\* instead of being incremented.
WriteCallSetAlways(key, current) ==
    [name |-> "set", key |-> key, value |-> current + 1, timeout |-> PERIOD_IN_SECONDS]

\* allow_request, lines 44-48: the cache call of an admitted check.
WriteCall(key, current) ==
    IF current = 0
    THEN [name |-> "set", key |-> key, value |-> 1, timeout |-> PERIOD_IN_SECONDS]
    ELSE [name |-> "incr", key |-> key, value |-> 0, timeout |-> 0]

\* What the cache does with that call.
CacheApply(c, call) ==
    IF call.name = "set"
    THEN [raised |-> FALSE, cache |-> CacheSet(c, call.key, call.value, call.timeout)]
    ELSE CacheIncr(c, call.key)

\* An exception nothing handles (the ValueError of cache.incr): a 500.
ServerErrorResponse ==
    [status |-> 500, code |-> "error", detail |-> "ValueError",
     body |-> <<>>, wait |-> 0]


-----------------------------------------------------------------------------
(* views.py *)

\* The handlers ProxyView defines; any other method gets DRF's 405.
HandlerMethods == { "GET", "POST", "PUT", "PATCH", "DELETE", "HEAD", "OPTIONS" }

MethodNotAllowedResponse ==
    [status |-> 405, code |-> "method_not_allowed", detail |-> "Method not allowed.",
     body |-> <<"{\"detail\": \"Method not allowed.\"}">>, wait |-> 0]

\* Mutant of ActiveServices: the lookup ignores is_active.
ServicesAnyFlag(svcs, slug) == { s \in svcs : s.slug = slug }

\* Service.objects.get(slug=service_slug, is_active=True): the matching rows.
ActiveServices(svcs, slug) == { s \in svcs : s.slug = slug /\ s.is_active }

ServiceNotFoundResponse ==
    [status |-> 404, code |-> "", detail |-> "",
     body |-> <<"{\"detail\": \"Service not found.\"}">>, wait |-> 0]

\* What the upstream does with one exchange: it answers with a status and
\* a body, or the transport fails (requests.RequestException).
UpstreamOutcomes ==
    { [ok |-> TRUE, status |-> a.status, body |-> a.body, exc |-> ""] :
        a \in UpstreamAnswers }
    \cup { [ok |-> FALSE, status |-> 0, body |-> <<>>, exc |-> e] : e \in TransportErrors }

\* Mutant of AllowRedirects: redirects are followed.
AllowRedirectsOn == TRUE

\* The allow_redirects argument of http_client.request.
AllowRedirects == FALSE

IsRedirect(status) == status \in 300..399

\* http_client.request(...): the exchanges made and the outcome returned.
\* With redirects allowed a 3xx answer is followed by a second exchange.
HttpClientRequest(first, second) ==
    IF first.ok /\ IsRedirect(first.status) /\ AllowRedirects
    THEN [calls |-> 2, outcome |-> second]
    ELSE [calls |-> 1, outcome |-> first]

\* Mutant of StatusCodeOf: a transport failure is reported as a 504.
StatusCodeOfGatewayTimeout(outcome) ==
    IF outcome.ok THEN outcome.status ELSE 504

\* _proxy, lines 71-88: status code and body of the outcome.
StatusCodeOf(outcome) ==
    IF outcome.ok THEN outcome.status ELSE UPSTREAM_ERROR_STATUS

ResponseBodyOf(outcome) ==
    IF outcome.ok THEN outcome.body
    ELSE <<"{\"detail\": \"Upstream service error: ", outcome.exc, "\"}">>

\* Mutant of LogRecord: the path is logged without its leading slash.
LogRecordRawPath(r) ==
    [api_key |-> r.auth.pk, service |-> r.service.slug, method |-> r.method,
     path |-> r.path, status_code |-> r.status_code]

\* _proxy, lines 91-99: the RequestLog row (duration_ms, a measured time,
\* is left out).
LogRecord(r) ==
    [api_key |-> r.auth.pk, service |-> r.service.slug, method |-> r.method,
     path |-> <<"/">> \o r.path, status_code |-> r.status_code]

\* _proxy, lines 101-107: the response relayed to the caller.
ProxyResponse(r) ==
    [status |-> r.status_code, code |-> "", detail |-> "",
     body |-> r.response_body, wait |-> 0]


-----------------------------------------------------------------------------
(* Header names: strings as sequences of characters, so that changing the *)
(* case of a name and replacing a character in it are computed.           *)

LowerLetters == <<"a", "b", "c", "d", "e", "f", "g", "h", "i", "j", "k", "l", "m",
                  "n", "o", "p", "q", "r", "s", "t", "u", "v", "w", "x", "y", "z">>
UpperLetters == <<"A", "B", "C", "D", "E", "F", "G", "H", "I", "J", "K", "L", "M",
                  "N", "O", "P", "Q", "R", "S", "T", "U", "V", "W", "X", "Y", "Z">>

\* str.lower, str.upper, str.replace (of one character), str.startswith.
LowerChar(c) ==
    IF \E i \in 1..Len(UpperLetters) : UpperLetters[i] = c
    THEN LowerLetters[CHOOSE i \in 1..Len(UpperLetters) : UpperLetters[i] = c]
    ELSE c
UpperChar(c) ==
    IF \E i \in 1..Len(LowerLetters) : LowerLetters[i] = c
    THEN UpperLetters[CHOOSE i \in 1..Len(LowerLetters) : LowerLetters[i] = c]
    ELSE c
lower(s) == [i \in 1..Len(s) |-> LowerChar(s[i])]
upper(s) == [i \in 1..Len(s) |-> UpperChar(s[i])]
replace(s, old, new) == [i \in 1..Len(s) |-> IF s[i] = old THEN new ELSE s[i]]
startswith(s, prefix) ==
    Len(s) >= Len(prefix) /\ SubSeq(s, 1, Len(prefix)) = prefix

\* The header names the model uses.
X_API_KEY == <<"x", "-", "a", "p", "i", "-", "k", "e", "y">>
HOST == <<"h", "o", "s", "t">>
COOKIE == <<"c", "o", "o", "k", "i", "e">>
CONTENT_TYPE_NAME == <<"c", "o", "n", "t", "e", "n", "t", "-", "t", "y", "p", "e">>
CONTENT_LENGTH_NAME == <<"c", "o", "n", "t", "e", "n", "t", "-", "l", "e", "n", "g", "t", "h">>
CONTENT_ENCODING_NAME == <<"c", "o", "n", "t", "e", "n", "t", "-", "e", "n", "c", "o", "d", "i", "n", "g">>
TRANSFER_ENCODING_NAME == <<"t", "r", "a", "n", "s", "f", "e", "r", "-", "e", "n", "c", "o", "d", "i", "n", "g">>
CONNECTION_NAME == <<"c", "o", "n", "n", "e", "c", "t", "i", "o", "n">>

\* The headers a caller may send, in several casings; a Content-Type
\* without a value; a name written with "_", which some servers hand over.
InboundHeaders ==
    { [name |-> <<"X", "-", "A", "P", "I", "-", "K", "E", "Y">>, value |-> "k1"],
      [name |-> <<"x", "-", "a", "p", "i", "-", "k", "e", "y">>, value |-> "k1"],
      [name |-> <<"X", "-", "A", "p", "i", "-", "K", "e", "y">>, value |-> "k1"],
      [name |-> <<"H", "o", "s", "t">>, value |-> "evil.com"],
      [name |-> <<"H", "O", "S", "T">>, value |-> "evil.com"],
      [name |-> <<"C", "o", "o", "k", "i", "e">>, value |-> "session=abc"],
      [name |-> <<"c", "o", "o", "k", "i", "e">>, value |-> "session=abc"],
      [name |-> <<"X", "-", "C", "u", "s", "t", "o", "m", "-", "H", "e", "a", "d", "e", "r">>, value |-> "custom-value"],
      [name |-> <<"x", "-", "c", "u", "s", "t", "o", "m", "-", "h", "e", "a", "d", "e", "r">>, value |-> "Custom-Value"],
      [name |-> <<"A", "c", "c", "e", "p", "t">>, value |-> "*/*"],
      [name |-> <<"C", "o", "n", "t", "e", "n", "t", "-", "T", "y", "p", "e">>, value |-> "application/json"],
      [name |-> <<"c", "o", "n", "t", "e", "n", "t", "-", "t", "y", "p", "e">>, value |-> "text/plain"],
      [name |-> <<"C", "o", "n", "t", "e", "n", "t", "-", "T", "y", "p", "e">>, value |-> ""],
      [name |-> <<"C", "o", "n", "t", "e", "n", "t", "-", "L", "e", "n", "g", "t", "h">>, value |-> "16"],
      [name |-> <<"X", "_", "C", "u", "s", "t", "o", "m", "_", "H", "e", "a", "d", "e", "r">>, value |-> "underscored"] }

\* request.META as the WSGI server builds it: a header is stored under
\* HTTP_ and its name in upper case with "-" replaced by "_", except
\* Content-Type and Content-Length, which are stored without the prefix;
\* META also holds keys that are no headers.
HTTP_PREFIX == <<"H", "T", "T", "P", "_">>
META_CONTENT_TYPE == <<"C", "O", "N", "T", "E", "N", "T", "_", "T", "Y", "P", "E">>
META_CONTENT_LENGTH == <<"C", "O", "N", "T", "E", "N", "T", "_", "L", "E", "N", "G", "T", "H">>
META_REQUEST_METHOD == <<"R", "E", "Q", "U", "E", "S", "T", "_", "M", "E", "T", "H", "O", "D">>

MetaKey(name) ==
    LET key == upper(replace(name, "-", "_")) IN
    IF key \in { META_CONTENT_TYPE, META_CONTENT_LENGTH } THEN key
    ELSE HTTP_PREFIX \o key

Environ(inbound) ==
    [k \in { MetaKey(h.name) : h \in inbound } \cup { META_REQUEST_METHOD } |->
        IF k = META_REQUEST_METHOD THEN "GET"
        ELSE (CHOOSE h \in inbound : MetaKey(h.name) = k).value]

\* The header sets of a request: the server hands over one value for a
\* META key.
InboundHeaderSets ==
    { hs \in SUBSET InboundHeaders :
        /\ Cardinality(hs) <= MaxHeaders
        /\ \A g \in hs, h \in hs : MetaKey(g.name) = MetaKey(h.name) => g = h }

\* ProxyView.EXCLUDED_HEADERS
EXCLUDED_HEADERS == { HOST, X_API_KEY, COOKIE }

\* Mutant of HeaderName: the name keeps the upper case of the META key.
HeaderNameNoLower(meta_key) ==
    replace(SubSeq(meta_key, 6, Len(meta_key)), "_", "-")

\* _extract_headers, line 127: the header name of a META key.
HeaderName(meta_key) ==
    lower(replace(SubSeq(meta_key, 6, Len(meta_key)), "_", "-"))

\* _extract_headers: the dict of the headers to send upstream.
ExtractHeaders(META) ==
    LET kept == { k \in DOMAIN META :
                    startswith(k, HTTP_PREFIX) /\ HeaderName(k) \notin EXCLUDED_HEADERS }
        headers == [n \in { HeaderName(k) : k \in kept } |->
                      META[CHOOSE k \in kept : HeaderName(k) = n]]
        content_type == IF META_CONTENT_TYPE \in DOMAIN META
                        THEN META[META_CONTENT_TYPE] ELSE None
    IN  IF Falsy(content_type) THEN headers
        ELSE [n \in DOMAIN headers \cup { CONTENT_TYPE_NAME } |->
                IF n = CONTENT_TYPE_NAME THEN content_type ELSE headers[n]]


\* The headers an upstream may answer with, in several casings.
UpstreamHeaders ==
    { [name |-> <<"C", "o", "n", "t", "e", "n", "t", "-", "T", "y", "p", "e">>, value |-> "application/json"],
      [name |-> <<"c", "o", "n", "t", "e", "n", "t", "-", "t", "y", "p", "e">>, value |-> "text/plain"],
      [name |-> <<"C", "O", "N", "T", "E", "N", "T", "-", "T", "Y", "P", "E">>, value |-> "text/html"],
      [name |-> <<"X", "-", "R", "e", "q", "u", "e", "s", "t", "-", "I", "d">>, value |-> "abc-123"],
      [name |-> <<"C", "a", "c", "h", "e", "-", "C", "o", "n", "t", "r", "o", "l">>, value |-> "no-cache"],
      [name |-> <<"C", "o", "n", "t", "e", "n", "t", "-", "E", "n", "c", "o", "d", "i", "n", "g">>, value |-> "gzip"],
      [name |-> <<"c", "o", "n", "t", "e", "n", "t", "-", "e", "n", "c", "o", "d", "i", "n", "g">>, value |-> "gzip"],
      [name |-> <<"C", "o", "n", "t", "e", "n", "t", "-", "L", "e", "n", "g", "t", "h">>, value |-> "999"],
      [name |-> <<"c", "o", "n", "t", "e", "n", "t", "-", "l", "e", "n", "g", "t", "h">>, value |-> "999"],
      [name |-> <<"T", "r", "a", "n", "s", "f", "e", "r", "-", "E", "n", "c", "o", "d", "i", "n", "g">>, value |-> "chunked"],
      [name |-> <<"T", "R", "A", "N", "S", "F", "E", "R", "-", "E", "N", "C", "O", "D", "I", "N", "G">>, value |-> "chunked"],
      [name |-> <<"C", "o", "n", "n", "e", "c", "t", "i", "o", "n">>, value |-> "keep-alive"],
      [name |-> <<"c", "o", "n", "n", "e", "c", "t", "i", "o", "n">>, value |-> "close"] }

\* dict(upstream_response.headers): the names as the upstream wrote them,
\* a name once whatever its case.
UpstreamHeaderSets ==
    { hs \in SUBSET UpstreamHeaders :
        /\ Cardinality(hs) <= MaxHeaders
        /\ \A g \in hs, h \in hs : lower(g.name) = lower(h.name) => g = h }

\* _proxy, lines 104-106: response_headers.get("Content-Type", ...), the
\* lookup of a dict, which finds this spelling of the key only.
CONTENT_TYPE_KEY == <<"C", "o", "n", "t", "e", "n", "t", "-", "T", "y", "p", "e">>
DEFAULT_CONTENT_TYPE == "application/octet-stream"

ResponseContentType(response_headers) ==
    IF \E h \in response_headers : h.name = CONTENT_TYPE_KEY
    THEN (CHOOSE h \in response_headers : h.name = CONTENT_TYPE_KEY).value
    ELSE DEFAULT_CONTENT_TYPE

\* _proxy, lines 112-117: the headers that are not copied.
UNSAFE_RESPONSE_HEADERS ==
    { CONTENT_ENCODING_NAME, CONTENT_LENGTH_NAME, TRANSFER_ENCODING_NAME,
      CONNECTION_NAME }

\* Mutant of IsUnsafe: the name is compared as the upstream wrote it.
IsUnsafeAsWritten(header) == header \in UNSAFE_RESPONSE_HEADERS

\* _proxy, lines 111-112
IsUnsafe(header) == lower(header) \in UNSAFE_RESPONSE_HEADERS

\* _proxy, lines 101-118: the headers of the HttpResponse. The response
\* keeps a header under its lower-cased name, with the name as it was
\* written and the value: setting a header replaces the one of the same
\* name in any case. The constructor sets Content-Type, the loop sets the
\* headers copied from upstream.
RelayedHeaders(response_headers) ==
    LET copied == { h \in response_headers : ~IsUnsafe(h.name) }
        names == { CONTENT_TYPE_NAME } \cup { lower(h.name) : h \in copied }
    IN  [n \in names |->
            IF \E h \in copied : lower(h.name) = n
            THEN LET h == CHOOSE g \in copied : lower(g.name) = n
                 IN  [name |-> h.name, value |-> h.value]
            ELSE [name |-> CONTENT_TYPE_KEY,
                  value |-> ResponseContentType(response_headers)]]


-----------------------------------------------------------------------------
(* models.py: APIKey.save *)

\* The values uuid.uuid4().hex may return, and the names of the model.
UuidTokens == { "u1", "u2", "u3" }
APIKeyNames == { "Original", "Updated" }

\* Mutant of APIKeySave: every save generates a key.
APIKeySaveRegenerate(instance, uuid4hex) == [instance EXCEPT !.key = uuid4hex]

\* APIKey.save: a key is generated for an instance that has none.
APIKeySave(instance, uuid4hex) ==
    IF Falsy(instance.key) THEN [instance EXCEPT !.key = uuid4hex] ELSE instance


-----------------------------------------------------------------------------
(* views.py: the upstream URL. A URL is a sequence of pieces; "/" and "?" *)
(* are pieces of their own where the code looks at them, and no other     *)
(* piece ends in "/".                                                      *)

\* str.rstrip(c): the string without the c's at its end.
RECURSIVE rstrip(_, _)
rstrip(s, c) ==
    IF s # <<>> /\ s[Len(s)] = c THEN rstrip(SubSeq(s, 1, Len(s) - 1), c) ELSE s

\* Mutant of UpstreamUrl: the base URL is used as it is stored.
UpstreamUrlNoStrip(base_url, path, query_string) ==
    LET upstream_url == base_url \o <<"/">> \o path IN
    IF query_string # <<>> THEN upstream_url \o <<"?">> \o query_string
    ELSE upstream_url

\* _proxy, lines 65-67. query_string is request.META.get("QUERY_STRING"),
\* <<>> when it is empty or not there.
UpstreamUrl(base_url, path, query_string) ==
    LET upstream_url == rstrip(base_url, "/") \o <<"/">> \o path IN
    IF query_string # <<>> THEN upstream_url \o <<"?">> \o query_string
    ELSE upstream_url

\* The base URLs, paths and query strings of the model.
BaseUrls ==
    { s.base_url : s \in InitialServices }
    \cup { <<"http://up", "/", "api">>, <<"http://up", "/", "api", "/", "/">> }
Paths ==
    { <<>>, <<"get">>, <<"status", "/", "500">>, <<"/", "x">>, <<"a", "/">> }
QueryStrings ==
    { <<>>, <<"foo=bar&baz=1">>, <<"b=2&a=1%20">>, <<"q=", "/", "?", "x">> }


-----------------------------------------------------------------------------
(* State *)

\* A worker's request and the locals of its handling. upstream (what the
\* upstream answered to the first exchange), ops (the cache calls made),
\* nCalls (upstream exchanges made) and nLogs (RequestLog rows created) are
\* history kept for the properties.
IdleReq ==
    [pc |-> "idle", header |-> <<>>, slug |-> None, method |-> None, path |-> <<>>,
     user |-> NoUser, auth |-> NoAuth, current |-> 0, service |-> NoService,
     upstream |-> NoOutcome, status_code |-> 0, response_body |-> <<>>, response |-> NoResponse,
     ops |-> <<>>, nCalls |-> 0, nLogs |-> 0]

\* No method is being applied on its own.
NoCall == [op |-> None, done |-> FALSE, input |-> <<>>, output |-> <<>>]

\* Counter entries the cache can hold when the model starts.
InitEntries ==
    { Absent }
    \cup { [present |-> TRUE, value |-> v, ttl |-> t] :
            v \in { RATE_LIMIT - 1, RATE_LIMIT }, t \in { PERIOD_IN_SECONDS } }

InitCommon ==
    /\ apiKeys = InitialAPIKeys
    /\ services = InitialServices
    /\ requestLog = <<>>
    /\ req = [w \in Workers |-> IdleReq]
    /\ upstreamCalls = 0
    /\ nRequests = 0
    /\ expired = FALSE

Init ==
    /\ InitCommon
    /\ viewCall = NoCall
    /\ \E e \in InitEntries :
         cache = [k \in CacheKeys |->
                    IF k = <<"throttle:api_key:", "k1">> THEN e ELSE Absent]

-----------------------------------------------------------------------------
(* One request: URL routing delivers (service_slug, path) to ProxyView;    *)
(* APIView.initial runs authentication, then the throttle, then the        *)
(* handler of the method.                                                  *)

\* A request goes to the first free worker.
Receive(w, header, slug, method, path) ==
    /\ req[w].pc = "idle"
    /\ \A v \in Workers : v < w => req[v].pc # "idle"
    /\ req' = [req EXCEPT ![w] =
                 [IdleReq EXCEPT !.pc = "authenticate", !.header = header,
                                 !.slug = slug, !.method = method, !.path = path]]
    /\ nRequests' = nRequests + 1
    /\ UNCHANGED <<viewCall, apiKeys, services, cache, requestLog, upstreamCalls, expired>>

\* Mutant of DoAuthenticate: a failed authentication lets the request go on
\* without a credential instead of answering 401.
DoAuthenticateAnonymous(w) ==
    /\ req[w].pc = "authenticate"
    /\ LET a == Authenticate(req[w].header, apiKeys) IN
       req' = [req EXCEPT ![w] =
                 IF a.ok
                 THEN [@ EXCEPT !.pc = "throttle", !.user = a.user, !.auth = a.auth]
                 ELSE [@ EXCEPT !.pc = "throttle"]]
    /\ UNCHANGED <<viewCall, apiKeys, services, cache, requestLog, upstreamCalls,
                   nRequests, expired>>

\* APIKeyAuthentication.authenticate and DRF's handling of its failure.
DoAuthenticate(w) ==
    /\ req[w].pc = "authenticate"
    /\ LET a == Authenticate(req[w].header, apiKeys) IN
       req' = [req EXCEPT ![w] =
                 IF a.ok
                 THEN [@ EXCEPT !.pc = "throttle", !.user = a.user, !.auth = a.auth]
                 ELSE [@ EXCEPT !.pc = "done", !.response = AuthFailedResponse(a)]]
    /\ UNCHANGED <<viewCall, apiKeys, services, cache, requestLog, upstreamCalls,
                   nRequests, expired>>

\* Mutant of ThrottleGet: a request without a key is refused (return False)
\* instead of let through.
ThrottleGetRefuseNoKey(w) ==
    /\ req[w].pc = "throttle"
    /\ LET key == get_cache_key(req[w].auth) IN
       IF key = NoKey
       THEN req' = [req EXCEPT ![w] =
                      [@ EXCEPT !.pc = "done",
                                !.response = ThrottledResponse(PERIOD_IN_SECONDS)]]
       ELSE LET current == ReadCount(cache, key) IN
            req' = [req EXCEPT ![w] =
                      [@ EXCEPT !.current = current,
                                !.ops = Append(@, [name |-> "get", key |-> key,
                                                   value |-> 0, timeout |-> 0]),
                                !.pc = IF OverLimit(current) THEN "ttl" ELSE "write"]]
    /\ UNCHANGED <<viewCall, apiKeys, services, cache, requestLog, upstreamCalls,
                   nRequests, expired>>

\* allow_request, lines 34-39: the key, the read of the count, the test.
ThrottleGet(w) ==
    /\ req[w].pc = "throttle"
    /\ LET key == get_cache_key(req[w].auth) IN
       IF key = NoKey
       THEN req' = [req EXCEPT ![w].pc = "dispatch"]
       ELSE LET current == ReadCount(cache, key) IN
            req' = [req EXCEPT ![w] =
                      [@ EXCEPT !.current = current,
                                !.ops = Append(@, [name |-> "get", key |-> key,
                                                   value |-> 0, timeout |-> 0]),
                                !.pc = IF OverLimit(current) THEN "ttl" ELSE "write"]]
    /\ UNCHANGED <<viewCall, apiKeys, services, cache, requestLog, upstreamCalls,
                   nRequests, expired>>

\* Mutant of ThrottleReject: a rejected call starts the window afresh at the
\* count it read.
ThrottleRejectExtending(w) ==
    /\ req[w].pc = "ttl"
    /\ LET key == get_cache_key(req[w].auth)
           wait == CacheTtl(cache, key) IN
       /\ cache' = CacheSet(cache, key, req[w].current, PERIOD_IN_SECONDS)
       /\ req' = [req EXCEPT ![w] =
                    [@ EXCEPT !.pc = "done",
                              !.ops = Append(@, [name |-> "ttl", key |-> key,
                                                 value |-> wait, timeout |-> 0]),
                              !.response = ThrottledResponse(ThrottledWait(wait))]]
    /\ UNCHANGED <<viewCall, apiKeys, services, requestLog, upstreamCalls,
                   nRequests, expired>>

\* allow_request, lines 40-41: the read of the time-to-live, and Throttled.
ThrottleReject(w) ==
    /\ req[w].pc = "ttl"
    /\ LET key == get_cache_key(req[w].auth)
           wait == CacheTtl(cache, key) IN
       req' = [req EXCEPT ![w] =
                 [@ EXCEPT !.pc = "done",
                           !.ops = Append(@, [name |-> "ttl", key |-> key,
                                              value |-> wait, timeout |-> 0]),
                           !.response = ThrottledResponse(ThrottledWait(wait))]]
    /\ UNCHANGED <<viewCall, apiKeys, services, cache, requestLog, upstreamCalls,
                   nRequests, expired>>

\* allow_request, lines 44-50: the write, and the return of True.
ThrottleWrite(w) ==
    /\ req[w].pc = "write"
    /\ LET call == WriteCall(get_cache_key(req[w].auth), req[w].current)
           done == CacheApply(cache, call) IN
       /\ cache' = done.cache
       /\ req' = [req EXCEPT ![w] =
                    [@ EXCEPT !.ops = Append(@, call),
                              !.pc = IF done.raised THEN "done" ELSE "dispatch",
                              !.response = IF done.raised THEN ServerErrorResponse
                                           ELSE @]]
    /\ UNCHANGED <<viewCall, apiKeys, services, requestLog, upstreamCalls,
                   nRequests, expired>>

\* APIView.dispatch: the handler of the method, or 405.
Dispatch(w) ==
    /\ req[w].pc = "dispatch"
    /\ req' = [req EXCEPT ![w] =
                 IF req[w].method \in HandlerMethods
                 THEN [@ EXCEPT !.pc = "resolve"]
                 ELSE [@ EXCEPT !.pc = "done", !.response = MethodNotAllowedResponse]]
    /\ UNCHANGED <<viewCall, apiKeys, services, cache, requestLog, upstreamCalls,
                   nRequests, expired>>

\* Mutant of Resolve: a failed lookup is written to the RequestLog.
ResolveAudited(w) ==
    /\ req[w].pc = "resolve"
    /\ LET found == ActiveServices(services, req[w].slug) IN
       IF found = {}
       THEN /\ req' = [req EXCEPT ![w] =
                         [@ EXCEPT !.pc = "done", !.nLogs = @ + 1,
                                   !.response = ServiceNotFoundResponse]]
            /\ requestLog' = Append(requestLog,
                                    [api_key |-> req[w].auth.pk, service |-> None,
                                     method |-> req[w].method,
                                     path |-> <<"/">> \o req[w].path,
                                     status_code |-> 404])
       ELSE /\ req' = [req EXCEPT ![w] =
                         [@ EXCEPT !.pc = "forward",
                                   !.service = CHOOSE s \in found : TRUE]]
            /\ requestLog' = requestLog
    /\ UNCHANGED <<viewCall, apiKeys, services, cache, upstreamCalls, nRequests, expired>>

\* _proxy, lines 54-63: the service lookup.
Resolve(w) ==
    /\ req[w].pc = "resolve"
    /\ LET found == ActiveServices(services, req[w].slug) IN
       req' = [req EXCEPT ![w] =
                 IF found = {}
                 THEN [@ EXCEPT !.pc = "done", !.response = ServiceNotFoundResponse]
                 ELSE [@ EXCEPT !.pc = "forward",
                                !.service = CHOOSE s \in found : TRUE]]
    /\ UNCHANGED <<viewCall, apiKeys, services, cache, requestLog, upstreamCalls,
                   nRequests, expired>>

\* _proxy, lines 70-89: the upstream exchange.
Forward(w) ==
    /\ req[w].pc = "forward"
    /\ \E first \in UpstreamOutcomes, second \in UpstreamOutcomes :
         LET x == HttpClientRequest(first, second) IN
         /\ req' = [req EXCEPT ![w] =
                      [@ EXCEPT !.pc = "log",
                                !.upstream = first,
                                !.status_code = StatusCodeOf(x.outcome),
                                !.response_body = ResponseBodyOf(x.outcome),
                                !.nCalls = @ + x.calls]]
         /\ upstreamCalls' = upstreamCalls + x.calls
    /\ UNCHANGED <<viewCall, apiKeys, services, cache, requestLog,
                   nRequests, expired>>

\* _proxy, lines 91-120: the RequestLog row and the response.
LogAndRespond(w) ==
    /\ req[w].pc = "log"
    /\ requestLog' = Append(requestLog, LogRecord(req[w]))
    /\ req' = [req EXCEPT ![w] =
                 [@ EXCEPT !.pc = "done", !.nLogs = @ + 1,
                           !.response = ProxyResponse(req[w])]]
    /\ UNCHANGED <<viewCall, apiKeys, services, cache, upstreamCalls,
                   nRequests, expired>>

\* The response has been sent; the worker is free for the next request.
Finish(w) ==
    /\ req[w].pc = "done"
    /\ req' = [req EXCEPT ![w] = IdleReq]
    /\ UNCHANGED <<viewCall, apiKeys, services, cache, requestLog, upstreamCalls,
                   nRequests, expired>>

-----------------------------------------------------------------------------
(* The environment: time, and the administrator (admin.py) *)

Tick ==
    /\ \E k \in CacheKeys : cache[k].present
    /\ cache' = Elapse(cache)
    /\ expired' = (expired \/ \E k \in CacheKeys : cache[k].present /\ ~cache'[k].present)
    /\ UNCHANGED <<viewCall, apiKeys, services, requestLog, req, upstreamCalls,
                   nRequests>>

\* APIKeyAdmin: is_active is editable, key is read-only.
SetAPIKeyActive(pk, active) ==
    /\ \E r \in apiKeys : r.pk = pk /\ r.is_active # active
    /\ apiKeys' = { IF r.pk = pk THEN [r EXCEPT !.is_active = active] ELSE r : r \in apiKeys }
    /\ UNCHANGED <<viewCall, services, cache, requestLog, req, upstreamCalls,
                   nRequests, expired>>

\* ServiceAdmin: is_active is editable.
SetServiceActive(slug, active) ==
    /\ \E s \in services : s.slug = slug /\ s.is_active # active
    /\ services' = { IF s.slug = slug THEN [s EXCEPT !.is_active = active] ELSE s : s \in services }
    /\ UNCHANGED <<viewCall, apiKeys, cache, requestLog, req, upstreamCalls,
                   nRequests, expired>>

-----------------------------------------------------------------------------
(* Specifications *)

\* The rows the administrator switches off and on in the model.
AdminAPIKeys == { 2 }
AdminServices == { "legacy" }

\* Spec: the whole data path, one request after the other, with time and
\* the administrator acting between any two steps of a request.
ReceiveAny(w) ==
    /\ nRequests < MaxRequests
    /\ \E r \in RequestInputs : Receive(w, r.header, r.slug, r.method, r.path)

Next ==
    \/ ReceiveAny(1)
    \/ DoAuthenticate(1)
    \/ ThrottleGet(1)
    \/ ThrottleReject(1)
    \/ ThrottleWrite(1)
    \/ Dispatch(1)
    \/ Resolve(1)
    \/ Forward(1)
    \/ LogAndRespond(1)
    \/ Finish(1)
    \/ Tick
    \/ \E pk \in AdminAPIKeys, a \in BOOLEAN : SetAPIKeyActive(pk, a)
    \/ \E sl \in AdminServices, a \in BOOLEAN : SetServiceActive(sl, a)

Spec == Init /\ [][Next]_vars

\* ConcSpec: the rate limiter under concurrency. The workers handle
\* requests at the same time; every request carries a credential and names
\* a slug that resolves to no service, so that it ends after the throttle.
ConcReceive(w) ==
    /\ nRequests < MaxConcRequests
    /\ \E h \in { <<"k1">>, <<"k2">> } : Receive(w, h, "nonexistent", "GET", <<"get">>)

ConcNext ==
    \/ \E w \in Workers : ConcReceive(w)
    \/ \E w \in Workers : DoAuthenticate(w)
    \/ \E w \in Workers : ThrottleGet(w)
    \/ \E w \in Workers : ThrottleReject(w)
    \/ \E w \in Workers : ThrottleWrite(w)
    \/ \E w \in Workers : Dispatch(w)
    \/ \E w \in Workers : Resolve(w)
    \/ \E w \in Workers : Finish(w)
    \/ Tick
    \/ \E pk \in AdminAPIKeys, a \in BOOLEAN : SetAPIKeyActive(pk, a)

ConcSpec == Init /\ [][ConcNext]_vars

\* Time does pass: an entry's time-to-live runs out.
FairConcSpec == ConcSpec /\ WF_vars(Tick)

\* SeqSpec: one caller, one key, one request after the other, from an
\* empty cache.
SeqRequests == RATE_LIMIT + 2

SeqInit ==
    /\ InitCommon
    /\ viewCall = NoCall
    /\ viewCall = NoCall
    /\ cache = [k \in CacheKeys |-> Absent]

SeqReceive ==
    /\ nRequests < SeqRequests
    /\ Receive(1, <<"k1">>, "nonexistent", "GET", <<"get">>)

SeqNext ==
    \/ SeqReceive
    \/ DoAuthenticate(1)
    \/ ThrottleGet(1)
    \/ ThrottleReject(1)
    \/ ThrottleWrite(1)
    \/ Dispatch(1)
    \/ Resolve(1)
    \/ Finish(1)
    \/ Tick

SeqSpec == SeqInit /\ [][SeqNext]_vars


\* ViewSpec: the methods of ProxyView that compute a value from their
\* arguments, each applied once to an input.
ViewInputs ==
    { [op |-> "_extract_headers", done |-> FALSE, input |-> hs, output |-> <<>>] :
        hs \in InboundHeaderSets }
    \cup { [op |-> "response", done |-> FALSE, input |-> hs, output |-> <<>>] :
            hs \in UpstreamHeaderSets }
    \cup { [op |-> "upstream_url", done |-> FALSE,
            input |-> [base_url |-> b, path |-> p, query_string |-> q],
            output |-> <<>>] :
            b \in BaseUrls, p \in Paths, q \in QueryStrings }

ViewInit ==
    /\ InitCommon
    /\ cache = [k \in CacheKeys |-> Absent]
    /\ viewCall \in ViewInputs

\* headers = self._extract_headers(request)
ExtractHeadersCall ==
    /\ viewCall.op = "_extract_headers"
    /\ ~viewCall.done
    /\ viewCall' = [viewCall EXCEPT !.done = TRUE,
                                    !.output = ExtractHeaders(Environ(viewCall.input))]
    /\ UNCHANGED <<apiKeys, services, cache, requestLog, req, upstreamCalls,
                   nRequests, expired>>

\* _proxy, lines 101-120: the response built from the upstream's headers.
RelayHeadersCall ==
    /\ viewCall.op = "response"
    /\ ~viewCall.done
    /\ viewCall' = [viewCall EXCEPT !.done = TRUE,
                                    !.output = RelayedHeaders(viewCall.input)]
    /\ UNCHANGED <<apiKeys, services, cache, requestLog, req, upstreamCalls,
                   nRequests, expired>>

\* _proxy, lines 65-67: the URL of the upstream exchange.
UpstreamUrlCall ==
    /\ viewCall.op = "upstream_url"
    /\ ~viewCall.done
    /\ viewCall' = [viewCall EXCEPT
                      !.done = TRUE,
                      !.output = UpstreamUrl(viewCall.input.base_url,
                                             viewCall.input.path,
                                             viewCall.input.query_string)]
    /\ UNCHANGED <<apiKeys, services, cache, requestLog, req, upstreamCalls,
                   nRequests, expired>>

ViewNext ==
    \/ UpstreamUrlCall
    \/ ExtractHeadersCall
    \/ RelayHeadersCall

ViewSpec == ViewInit /\ [][ViewNext]_vars


\* KeySpec: the administrator creates APIKey rows and edits them.

\* APIKey.objects.create(name=name): a new instance, with no key, saved.
\* The key column is unique: a save that would repeat a key fails.
CreateAPIKey(name, uuid4hex) ==
    /\ Cardinality(apiKeys) < Cardinality(InitialAPIKeys) + MaxNewKeys
    /\ LET instance == [pk |-> Cardinality(apiKeys) + 1, name |-> name,
                        key |-> "", is_active |-> TRUE]
           saved == APIKeySave(instance, uuid4hex)
       IN  /\ \A r \in apiKeys : r.key # saved.key
           /\ apiKeys' = apiKeys \cup { saved }
    /\ UNCHANGED <<viewCall, services, cache, requestLog, req, upstreamCalls,
                   nRequests, expired>>

\* The change form of APIKeyAdmin, or instance.save() after assignments:
\* name and is_active are set (to new values or the same), then save().
SaveAPIKey(pk, name, active, uuid4hex) ==
    /\ \E row \in apiKeys :
         /\ row.pk = pk
         /\ LET saved == APIKeySave([row EXCEPT !.name = name, !.is_active = active],
                                    uuid4hex)
            IN  /\ \A r \in apiKeys \ { row } : r.key # saved.key
                /\ apiKeys' = (apiKeys \ { row }) \cup { saved }
    /\ UNCHANGED <<viewCall, services, cache, requestLog, req, upstreamCalls,
                   nRequests, expired>>

KeyNext ==
    \/ \E n \in APIKeyNames, t \in UuidTokens : CreateAPIKey(n, t)
    \/ \E r \in apiKeys :
         \E n \in APIKeyNames \cup { r.name }, a \in BOOLEAN, t \in UuidTokens :
            SaveAPIKey(r.pk, n, a, t)

KeySpec == SeqInit /\ [][KeyNext]_vars


\* ThrottleSpec: allow_request called on its own, as the tests of the
\* throttle call it: with a request whose auth is an APIKey or None, on a
\* cache in any state, by two callers at a time. allow_request has
\* returned True at "dispatch" and raised at "done".
ThrottleCallers ==
    { [IdleReq EXCEPT !.pc = "throttle", !.auth = a,
                      !.user = IF a = NoAuth THEN NoUser ELSE APIKeyUser(a)] :
        a \in { NoAuth } \cup { r \in InitialAPIKeys : r.is_active } }

ThrottleInit ==
    /\ apiKeys = InitialAPIKeys
    /\ services = InitialServices
    /\ requestLog = <<>>
    /\ upstreamCalls = 0
    /\ nRequests = 0
    /\ expired = FALSE
    /\ viewCall = NoCall
    /\ req \in [Workers -> ThrottleCallers]
    /\ cache \in [CacheKeys -> InitEntries]

ThrottleNext ==
    \/ \E w \in Workers : ThrottleGet(w)
    \/ \E w \in Workers : ThrottleReject(w)
    \/ \E w \in Workers : ThrottleWrite(w)
    \/ Tick

ThrottleSpec == ThrottleInit /\ [][ThrottleNext]_vars


\* RaceSpec: checks of one key, at most N of them at a time for an N from 1
\* to MaxInFlight, each by a worker of its own; a worker that is through
\* makes the next check.
InFlight == DOMAIN req

RaceCaller ==
    LET a == CHOOSE r \in InitialAPIKeys : r.is_active IN
    [IdleReq EXCEPT !.pc = "throttle", !.auth = a, !.user = APIKeyUser(a)]

RaceInit ==
    /\ apiKeys = InitialAPIKeys
    /\ services = InitialServices
    /\ requestLog = <<>>
    /\ upstreamCalls = 0
    /\ nRequests = 0
    /\ expired = FALSE
    /\ viewCall = NoCall
    /\ \E n \in 1..MaxInFlight : req = [w \in 1..n |-> IdleReq]
    /\ \E e \in InitEntries :
         cache = [k \in CacheKeys |->
                    IF k = get_cache_key(RaceCaller.auth) THEN e ELSE Absent]

\* The throttle is called for a request; it goes to the first free worker.
RaceCall(w) ==
    /\ nRequests < MaxRaceChecks
    /\ req[w].pc = "idle"
    /\ \A v \in InFlight : v < w => req[v].pc # "idle"
    /\ req' = [req EXCEPT ![w] = RaceCaller]
    /\ nRequests' = nRequests + 1
    /\ UNCHANGED <<viewCall, apiKeys, services, cache, requestLog, upstreamCalls,
                   expired>>

\* allow_request has returned True or raised: the call is over.
RaceReturn(w) ==
    /\ req[w].pc \in { "dispatch", "done" }
    /\ req' = [req EXCEPT ![w] = IdleReq]
    /\ UNCHANGED <<viewCall, apiKeys, services, cache, requestLog, upstreamCalls,
                   nRequests, expired>>

RaceNext ==
    \/ \E w \in InFlight : RaceCall(w)
    \/ \E w \in InFlight : ThrottleGet(w)
    \/ \E w \in InFlight : ThrottleReject(w)
    \/ \E w \in InFlight : ThrottleWrite(w)
    \/ \E w \in InFlight : RaceReturn(w)
    \/ Tick

RaceSpec == RaceInit /\ [][RaceNext]_vars


-----------------------------------------------------------------------------
(* Properties *)

\* The cache key of the request worker w handles.
KeyOf(w) == get_cache_key(req[w].auth)

\* Worker w takes a step.
Steps(w) == req'[w] # req[w]

\* The request of worker w has been through allow_request's cache calls.
CheckDone(r) == Len(r.ops) = 2

\* allow_request returned True for it / raised Throttled for it.
Admitted(r) ==
    /\ CheckDone(r)
    /\ r.ops[2].name \in { "set", "incr" }
    /\ r.pc \in { "dispatch", "resolve", "forward", "log" }
       \/ (r.pc = "done" /\ r.response.status # 500)
Rejected(r) ==
    /\ CheckDone(r)
    /\ r.ops[2].name = "ttl"
    /\ r.pc = "done"
    /\ r.response.status = 429

\* C1. Sequential limit: with one check after the other on one key, from an
\* absent entry and with no expiry in between, each of the first RATE_LIMIT
\* checks is admitted and check RATE_LIMIT + 1 is rejected with Throttled;
\* when the cache reports a positive time-to-live, the wait is in
\* 1..PERIOD_IN_SECONDS.
C1_SequentialLimit ==
    LET r == req[1] IN
    (~expired /\ CheckDone(r)) =>
        /\ nRequests <= RATE_LIMIT => Admitted(r)
        /\ nRequests = RATE_LIMIT + 1 =>
              /\ Rejected(r)
              /\ r.ops[2].value > 0 =>
                   (0 < r.response.wait /\ r.response.wait <= PERIOD_IN_SECONDS)

C1_Witness ==
    /\ ~expired
    /\ nRequests = RATE_LIMIT + 1
    /\ Rejected(req[1])
    /\ req[1].ops[2].value > 0
    /\ cache[KeyOf(1)].value = RATE_LIMIT


\* C2. Rejection and wait hint: a check that read a count >= RATE_LIMIT is
\* never admitted and ends as a 429; the wait it carries is the entry's
\* remaining time-to-live when that is positive, else PERIOD_IN_SECONDS.
C2_NeverAdmitted ==
    \A w \in Workers :
        req[w].current >= RATE_LIMIT =>
            /\ req[w].pc \in { "ttl", "done" }
            /\ req[w].pc = "done" => req[w].response.status = 429

C2_WaitStep ==
    \A w \in Workers :
        (req[w].pc = "ttl" /\ Steps(w)) =>
            LET e == cache[KeyOf(w)]
                left == IF e.present THEN e.ttl ELSE 0 IN
            /\ req'[w].pc = "done"
            /\ req'[w].response.status = 429
            /\ req'[w].response.wait = IF left > 0 THEN left ELSE PERIOD_IN_SECONDS

C3_StartStep ==
    \A w \in Workers :
        (req[w].pc = "write" /\ req[w].current = 0 /\ Steps(w)) =>
            /\ req'[w].pc = "dispatch"
            /\ cache'[KeyOf(w)] = [present |-> TRUE, value |-> 1, ttl |-> PERIOD_IN_SECONDS]

C3_OnlyStartSetsTtl ==
    \A k \in CacheKeys :
        (cache'[k].present /\ (~cache[k].present \/ cache'[k].ttl > cache[k].ttl)) =>
            \E w \in Workers :
                /\ req[w].pc = "write" /\ req[w].current = 0 /\ Steps(w)
                /\ KeyOf(w) = k

C4_IncrStep ==
    \A w \in Workers :
        (/\ req[w].pc = "write" /\ Steps(w)
         /\ 0 < req[w].current /\ req[w].current < RATE_LIMIT
         /\ cache[KeyOf(w)].present) =>
            /\ req'[w].pc = "dispatch"
            /\ Len(req'[w].ops) = Len(req[w].ops) + 1
            /\ req'[w].ops[Len(req'[w].ops)].name = "incr"
            /\ \A i \in 1..Len(req'[w].ops) : req'[w].ops[i].name # "set"
            /\ cache'[KeyOf(w)] = [cache[KeyOf(w)] EXCEPT !.value = @ + 1]
            /\ \A k \in CacheKeys : k # KeyOf(w) => cache'[k] = cache[k]

C5_ReadAbsentStep ==
    \A w \in Workers :
        (/\ req[w].pc = "throttle" /\ Steps(w)
         /\ KeyOf(w) \in CacheKeys /\ ~cache[KeyOf(w)].present) =>
            /\ req'[w].current = 0
            /\ req'[w].pc = "write"

C5_ReadZeroStartsWindow ==
    \A w \in Workers :
        (CheckDone(req[w]) /\ req[w].current = 0) =>
            /\ Admitted(req[w])
            /\ req[w].ops[2] = [name |-> "set", key |-> KeyOf(w), value |-> 1,
                                timeout |-> PERIOD_IN_SECONDS]

C5_WindowElapses ==
    \A k \in CacheKeys :
        (cache[k].present /\ cache[k].value >= RATE_LIMIT) ~> ~cache[k].present

C5_FreshWindow ==
    /\ [][C5_ReadAbsentStep]_vars
    /\ []C5_ReadZeroStartsWindow
    /\ C5_WindowElapses

C5_Witness ==
    \E w1 \in Workers, w2 \in Workers :
        /\ Rejected(req[w1])
        /\ Admitted(req[w2])
        /\ KeyOf(w1) = KeyOf(w2)
        /\ req[w2].ops[2].name = "set"
        /\ cache[KeyOf(w2)].present
        /\ cache[KeyOf(w2)].value = 1


\* C6. AuthGate outcome: authenticate fails with missing_api_key when the
\* X-API-KEY header is absent or empty, fails with invalid_api_key when no
\* active APIKey row has the token, and otherwise yields an APIKeyUser and,
\* as request.auth, an active row with that token; it writes neither the
\* APIKey rows, nor the cache, nor the RequestLog.
C6_AuthStep ==
    \A w \in Workers :
        (req[w].pc = "authenticate" /\ Steps(w)) =>
            LET h == req[w].header
                r == req'[w] IN
            /\ IF h = <<>> \/ h = <<"">>
               THEN /\ r.pc = "done"
                    /\ r.response.status = 401
                    /\ r.response.code = "missing_api_key"
               ELSE IF ~\E k \in apiKeys : k.key = h[1] /\ k.is_active
               THEN /\ r.pc = "done"
                    /\ r.response.status = 401
                    /\ r.response.code = "invalid_api_key"
               ELSE /\ r.pc = "throttle"
                    /\ r.auth \in apiKeys
                    /\ r.auth.key = h[1]
                    /\ r.auth.is_active
                    /\ r.user = [api_key |-> r.auth, pk |-> r.auth.pk,
                                 is_authenticated |-> TRUE]
            /\ apiKeys' = apiKeys
            /\ cache' = cache
            /\ requestLog' = requestLog

C6_AuthGateOutcome == [][C6_AuthStep]_vars

C6_Witness ==
    \E w \in Workers :
        /\ req[w].pc = "throttle"
        /\ req[w].header = <<"k2">>
        /\ req[w].auth.pk = 2

\* C7. Uniform credential rejection: the response to a token that no row
\* has and the response to a token of a deactivated row are the same
\* response, with the same status, code, detail and body; authenticate gives
\* the same result for the two.
C7_InvalidKeyResponse ==
    [status |-> 401, code |-> "invalid_api_key",
     detail |-> "Invalid or inactive API key.",
     body |-> <<"{\"detail\": \"", "Invalid or inactive API key.", "\"}">>,
     wait |-> 0]

C7_UniformRejection ==
    /\ \A w \in Workers :
         (/\ req[w].pc = "done" /\ req[w].auth = NoAuth
          /\ req[w].header # <<>> /\ req[w].header # <<"">>) =>
             req[w].response = C7_InvalidKeyResponse
    /\ \A r \in RequestInputs, q \in RequestInputs :
         (/\ r.header # <<>> /\ r.header # <<"">> /\ q.header # <<>>
          /\ ~\E k \in apiKeys : k.key = r.header[1]
          /\ \E k \in apiKeys : k.key = q.header[1] /\ ~k.is_active) =>
             Authenticate(r.header, apiKeys) = Authenticate(q.header, apiKeys)

C7_Witness ==
    \E w \in Workers :
        /\ req[w].pc = "done"
        /\ req[w].response.status = 401
        /\ req[w].header # <<>>
        /\ \E k \in apiKeys : k.key = req[w].header[1] /\ ~k.is_active

\* C8. Short-circuit of rejections: a request rejected by authentication
\* (401), by the throttle (429) or by the service lookup (404) has made no
\* upstream exchange and created no RequestLog row, and the step that
\* rejects it leaves the RequestLog and the count of upstream exchanges as
\* they were.
GatewayRejected(r) ==
    \/ r.response.status = 401 /\ r.auth = NoAuth
    \/ Rejected(r)
    \/ r.response.status = 404 /\ r.auth # NoAuth /\ r.service = NoService

C8_NoCallNoRecord ==
    \A w \in Workers :
        (req[w].pc = "done" /\ GatewayRejected(req[w])) =>
            /\ req[w].nCalls = 0
            /\ req[w].nLogs = 0
            /\ req[w].upstream = NoOutcome

C8_RejectStep ==
    \A w \in Workers :
        (Steps(w) /\ req'[w].pc = "done" /\ GatewayRejected(req'[w])) =>
            /\ requestLog' = requestLog
            /\ upstreamCalls' = upstreamCalls

C8_ShortCircuit == []C8_NoCallNoRecord /\ [][C8_RejectStep]_vars

C8_Witness ==
    \E w \in Workers :
        /\ req[w].pc = "done"
        /\ req[w].response.status = 404
        /\ req[w].service = NoService
        /\ req[w].nLogs = 0
        /\ Len(requestLog) = 1
        /\ upstreamCalls = 1

\* C9. Exactly-once forwarding and audit: a request that passed
\* authentication, throttle and service lookup has, when it is answered,
\* made exactly one upstream exchange and created exactly one RequestLog
\* row, which holds its APIKey, its Service, its method, its path with a
\* leading slash and the status code of its response; the RequestLog has
\* one row per request that went through the upstream exchange; rows are
\* only ever appended.
C9_OneCallOneRecord ==
    \A w \in Workers :
        (req[w].pc = "done" /\ req[w].service # NoService) =>
            /\ req[w].nCalls = 1
            /\ req[w].nLogs = 1
            /\ Len(requestLog) >= 1
            /\ requestLog[Len(requestLog)] =
                 [api_key |-> req[w].auth.pk, service |-> req[w].service.slug,
                  method |-> req[w].method, path |-> <<"/">> \o req[w].path,
                  status_code |-> req[w].response.status]

C9_RecordPerForward ==
    Len(requestLog) + Cardinality({ w \in Workers : req[w].pc = "log" }) = upstreamCalls

C9_AppendOnly ==
    /\ Len(requestLog') >= Len(requestLog)
    /\ SubSeq(requestLog', 1, Len(requestLog)) = requestLog

C9_ExactlyOnce ==
    /\ []C9_OneCallOneRecord
    /\ []C9_RecordPerForward
    /\ [][C9_AppendOnly]_vars

C9_Witness ==
    \E w \in Workers :
        /\ req[w].pc = "done"
        /\ req[w].service # NoService
        /\ ~req[w].upstream.ok
        /\ req[w].response.status = 502
        /\ Len(requestLog) = 2
        /\ requestLog[2].status_code = 502

\* C10. Relay of the upstream outcome: when the upstream answers, whatever
\* the status code, the caller gets that status code and that body, and the
\* request has made one upstream exchange only: a 3xx answer is relayed,
\* not followed.
C10_Relay ==
    \A w \in Workers :
        (req[w].pc \in { "log", "done" } /\ req[w].upstream.ok) =>
            /\ req[w].nCalls = 1
            /\ req[w].pc = "done" =>
                 /\ req[w].response.status = req[w].upstream.status
                 /\ req[w].response.body = req[w].upstream.body

C10_Witness ==
    \E w \in Workers :
        /\ req[w].pc = "done"
        /\ req[w].upstream.ok
        /\ req[w].upstream.status = 302
        /\ req[w].response.status = 302
        /\ req[w].nCalls = 1

\* C11. Transport failure mapping: when the upstream exchange fails at
\* transport level, the caller gets status 502 with the body
\* {"detail": "Upstream service error: <description>"}, where the
\* description is that of the failure, and the request has created exactly
\* one RequestLog row, whose status code is 502.
C11_FailureBody(exc) == <<"{\"detail\": \"Upstream service error: ", exc, "\"}">>

C11_TransportFailure ==
    \A w \in Workers :
        (req[w].pc = "done" /\ req[w].upstream # NoOutcome /\ ~req[w].upstream.ok) =>
            /\ req[w].response.status = 502
            /\ req[w].response.body = C11_FailureBody(req[w].upstream.exc)
            /\ req[w].nLogs = 1
            /\ requestLog[Len(requestLog)].status_code = 502
            /\ requestLog[Len(requestLog)].path = <<"/">> \o req[w].path

C11_Witness ==
    \E w \in Workers :
        /\ req[w].pc = "done"
        /\ ~req[w].upstream.ok
        /\ req[w].upstream.exc = "Read timed out"
        /\ req[w].response.body = C11_FailureBody("Read timed out")
        /\ Len(requestLog) = 1
        /\ requestLog[1].status_code = 502

\* C12. Outbound header policy: for every inbound header set, in any
\* casing, the headers sent upstream never contain x-api-key, host or
\* cookie; every other inbound header is among them under its lower-cased
\* name with its value unchanged; the content type of the inbound body,
\* when there is one, is sent as the header content-type.
C12_NeverExcluded ==
    (viewCall.op = "_extract_headers" /\ viewCall.done) =>
        \A n \in DOMAIN viewCall.output : n \notin { X_API_KEY, HOST, COOKIE }

C12_ContentTypeSent ==
    (viewCall.op = "_extract_headers" /\ viewCall.done) =>
        \A h \in viewCall.input :
            lower(h.name) = CONTENT_TYPE_NAME =>
                /\ CONTENT_TYPE_NAME \in DOMAIN viewCall.output
                /\ viewCall.output[CONTENT_TYPE_NAME] = h.value

C12_OthersForwarded ==
    (viewCall.op = "_extract_headers" /\ viewCall.done) =>
        \A h \in viewCall.input :
            lower(h.name) \notin { X_API_KEY, HOST, COOKIE } =>
                /\ lower(h.name) \in DOMAIN viewCall.output
                /\ viewCall.output[lower(h.name)] = h.value

C12_OutboundHeaderPolicy ==
    C12_NeverExcluded /\ C12_ContentTypeSent /\ C12_OthersForwarded

\* What _extract_headers does send: never x-api-key, host or cookie; never
\* Content-Length; Content-Type as content-type when its value is not
\* empty; every other inbound header under its lower-cased name, "_"
\* written as "-", with its value unchanged; nothing else.
C12_SentName(h) == lower(replace(h.name, "_", "-"))

C12_WhatIsSent ==
    (viewCall.op = "_extract_headers" /\ viewCall.done) =>
        LET sent == viewCall.output IN
        /\ C12_NeverExcluded
        /\ CONTENT_LENGTH_NAME \notin DOMAIN sent
        /\ \A h \in viewCall.input :
             (/\ C12_SentName(h) \notin { X_API_KEY, HOST, COOKIE, CONTENT_LENGTH_NAME }
              /\ ~(C12_SentName(h) = CONTENT_TYPE_NAME /\ h.value = "")) =>
                 /\ C12_SentName(h) \in DOMAIN sent
                 /\ sent[C12_SentName(h)] = h.value
        /\ \A n \in DOMAIN sent : \E h \in viewCall.input : C12_SentName(h) = n

C12_Witness ==
    /\ viewCall.op = "_extract_headers"
    /\ viewCall.done
    /\ \E g \in viewCall.input, h \in viewCall.input :
         /\ g.name = <<"X", "-", "A", "P", "I", "-", "K", "E", "Y">>
         /\ h.name = <<"X", "-", "C", "u", "s", "t", "o", "m", "-",
                       "H", "e", "a", "d", "e", "r">>
         /\ DOMAIN viewCall.output = { lower(h.name) }
         /\ viewCall.output[lower(h.name)] = "custom-value"

\* C13. Response header policy: for every upstream response header set, in
\* any casing, the relayed response copies no Content-Encoding,
\* Content-Length, Transfer-Encoding or Connection from upstream; every
\* other upstream header is relayed with its value unchanged; the response
\* declares Content-Type application/octet-stream if the upstream sent no
\* Content-Type in any casing, and the upstream's Content-Type otherwise.
C13_ResponseHeaderPolicy ==
    (viewCall.op = "response" /\ viewCall.done) =>
        LET upstream == viewCall.input
            relayed == viewCall.output
        IN  /\ \A n \in DOMAIN relayed :
                 /\ n \notin { CONTENT_ENCODING_NAME, CONTENT_LENGTH_NAME,
                               TRANSFER_ENCODING_NAME, CONNECTION_NAME }
                 /\ lower(relayed[n].name) = n
            /\ \A h \in upstream :
                 lower(h.name) \notin { CONTENT_ENCODING_NAME, CONTENT_LENGTH_NAME,
                                        TRANSFER_ENCODING_NAME, CONNECTION_NAME } =>
                     /\ lower(h.name) \in DOMAIN relayed
                     /\ relayed[lower(h.name)] = [name |-> h.name, value |-> h.value]
            /\ CONTENT_TYPE_NAME \in DOMAIN relayed
            /\ (~\E h \in upstream : lower(h.name) = CONTENT_TYPE_NAME) =>
                   relayed[CONTENT_TYPE_NAME].value = "application/octet-stream"
            /\ \A n \in DOMAIN relayed :
                 n # CONTENT_TYPE_NAME => \E h \in upstream : lower(h.name) = n

C13_Witness ==
    /\ viewCall.op = "response"
    /\ viewCall.done
    /\ \E g \in viewCall.input, h \in viewCall.input :
         /\ g.name = <<"c", "o", "n", "t", "e", "n", "t", "-", "t", "y", "p", "e">>
         /\ h.name = <<"C", "o", "n", "t", "e", "n", "t", "-",
                       "E", "n", "c", "o", "d", "i", "n", "g">>
         /\ DOMAIN viewCall.output = { CONTENT_TYPE_NAME }
         /\ viewCall.output[CONTENT_TYPE_NAME].value = "text/plain"

\* C14. Service resolution: a request is forwarded only when an active
\* Service with its slug exists at the lookup; a slug with no Service and a
\* slug whose Service is deactivated get the same response, 404 with body
\* {"detail": "Service not found."}; while a Service is deactivated, every
\* lookup of its slug ends in that 404 with no upstream exchange, and once
\* it is reactivated the lookup finds it again.
C14_NotFound ==
    [status |-> 404, code |-> "", detail |-> "",
     body |-> <<"{\"detail\": \"Service not found.\"}">>, wait |-> 0]

C14_ForwardedOnlyIfActive ==
    \A w \in Workers :
        (req[w].pc \in { "forward", "log" } \/ req[w].nCalls > 0) =>
            /\ req[w].service.slug = req[w].slug
            /\ req[w].service.is_active

C14_LookupStep ==
    \A w \in Workers :
        (req[w].pc = "resolve" /\ Steps(w)) =>
            IF \E s \in services : s.slug = req[w].slug /\ s.is_active
            THEN /\ req'[w].pc = "forward"
                 /\ req'[w].service \in services
                 /\ req'[w].service.slug = req[w].slug
            ELSE /\ req'[w].pc = "done"
                 /\ req'[w].response = C14_NotFound
                 /\ req'[w].nCalls = 0
                 /\ upstreamCalls' = upstreamCalls
                 /\ requestLog' = requestLog

C14_ServiceResolution == []C14_ForwardedOnlyIfActive /\ [][C14_LookupStep]_vars

\* The Service legacy was activated and a request to it forwarded; it was
\* deactivated again, and the next request to it got the 404.
C14_Witness ==
    /\ Len(requestLog) = 1
    /\ requestLog[1].service = "legacy"
    /\ \E s \in services : s.slug = "legacy" /\ ~s.is_active
    /\ req[1].pc = "done"
    /\ req[1].slug = "legacy"
    /\ req[1].response.status = 404
    /\ req[1].nCalls = 0

\* C15. Pipeline order: a request goes through authentication, the
\* throttle, the service lookup, the upstream exchange, the RequestLog row
\* and the response, in that order, a stage starting only after the one
\* before it succeeded. So a request with an invalid credential for an
\* unknown slug gets 401 and touches no counter; a request over the limit
\* for an unknown slug gets 429; the counter is updated before the service
\* lookup, so that an admitted request that gets 404 has used one unit of
\* its key's limit.
C15_StageOrder ==
    \A w \in Workers :
        LET r == req[w] IN
        /\ r.pc \in { "throttle", "ttl", "write", "dispatch", "resolve",
                      "forward", "log" } => r.auth # NoAuth
        /\ r.ops # <<>> => r.auth # NoAuth
        /\ (r.pc \in { "dispatch", "resolve", "forward", "log" }
            \/ r.service # NoService) =>
               (Len(r.ops) = 2 /\ r.ops[2].name \in { "set", "incr" })
        /\ (r.pc \in { "forward", "log" } \/ r.nCalls > 0) => r.service # NoService
        /\ r.nLogs > 0 => r.nCalls > 0
        /\ r.response # NoResponse <=> r.pc = "done"
        /\ (r.pc = "done" /\ r.nCalls > 0) => r.nLogs > 0

C15_Consequences ==
    \A w \in Workers :
        LET r == req[w] IN
        r.pc = "done" =>
            /\ r.auth = NoAuth => (r.response.status = 401 /\ r.ops = <<>>)
            /\ (r.auth # NoAuth /\ r.current >= RATE_LIMIT) => r.response.status = 429
            /\ (r.response.status = 404 /\ r.service = NoService) =>
                   (Len(r.ops) = 2 /\ r.ops[2].name \in { "set", "incr" })

C15_Steps ==
    \A w \in Workers :
        Steps(w) =>
            /\ req'[w].auth = NoAuth => cache' = cache
            /\ req[w].pc \in { "dispatch", "resolve", "forward", "log", "done" } =>
                   cache' = cache
            /\ (req[w].pc = "write" /\ req'[w].pc = "dispatch") =>
                   LET k == KeyOf(w)
                       used == IF cache[k].present THEN cache[k].value ELSE 0
                   IN  /\ cache'[k].present
                       /\ cache'[k].value = used + 1

C15_PipelineOrder ==
    /\ []C15_StageOrder
    /\ []C15_Consequences
    /\ [][C15_Steps]_vars

\* An admitted request for an unknown slug: it got 404 and the count of
\* its key went from RATE_LIMIT - 1 to RATE_LIMIT.
C15_Witness ==
    /\ req[1].pc = "done"
    /\ req[1].slug = "nonexistent"
    /\ req[1].response.status = 404
    /\ req[1].current = RATE_LIMIT - 1
    /\ req[1].ops[2].name = "incr"
    /\ cache[KeyOf(1)].present
    /\ cache[KeyOf(1)].value = RATE_LIMIT

\* C16. Every request completes with a well-defined response: under any
\* interleaving of concurrent requests and of the expiry of cache entries,
\* also when an entry expires between a request's read of the count and
\* its increment, the response of a request has status 401, 429, 404, 502
\* or the status the upstream answered with.
C16_MappedResponse ==
    \A w \in Workers :
        req[w].pc = "done" =>
            \/ req[w].response.status \in { 401, 429, 404, 502 }
            \/ /\ req[w].upstream # NoOutcome
               /\ req[w].upstream.ok
               /\ req[w].response.status = req[w].upstream.status

\* C17. Credential token immutability: an APIKey gets its key when it is
\* first saved without one, and no later update (rename, deactivation,
\* reactivation, save without a change) generates a new key or changes
\* it; so the cache key throttle:api_key:{key} of an APIKey stays the same.
C17_HasToken ==
    \A r \in apiKeys :
        /\ ~Falsy(r.key)
        /\ \A q \in apiKeys : q.key = r.key => q = r

C17_TokenKept ==
    /\ \A r \in apiKeys :
         \E q \in apiKeys' :
            /\ q.pk = r.pk
            /\ q.key = r.key
            /\ get_cache_key(q) = <<"throttle:api_key:", r.key>>
    /\ \A q \in apiKeys' :
         (\A r \in apiKeys : r.pk # q.pk) => q.key \in UuidTokens

C17_TokenImmutable == []C17_HasToken /\ [][C17_TokenKept]_vars

\* A created APIKey that was renamed and deactivated afterwards.
C17_Witness ==
    \E r \in apiKeys, q \in apiKeys :
        /\ r.pk = 3 /\ r.key = "u1" /\ r.name = "Updated" /\ ~r.is_active
        /\ q.pk = 4 /\ q.key = "u2" /\ q.name = "Original" /\ q.is_active

\* C18. Upstream URL construction: for every base URL, remaining path and
\* query string, the upstream URL is the base URL without the slashes at
\* its end, then "/", then the path as it is (empty, or with further "/");
\* "?" and the query string as it is are appended if and only if the query
\* string is not empty.
C18_UpstreamUrl ==
    (viewCall.op = "upstream_url" /\ viewCall.done) =>
        LET base == viewCall.input.base_url
            path == viewCall.input.path
            query == viewCall.input.query_string
            tail == IF query = <<>> THEN <<>> ELSE <<"?">> \o query
        IN  \E n \in 0..Len(base) :
               /\ n > 0 => base[n] # "/"
               /\ \A i \in (n + 1)..Len(base) : base[i] = "/"
               /\ viewCall.output = SubSeq(base, 1, n) \o <<"/">> \o path \o tail

C18_Witness ==
    /\ viewCall.op = "upstream_url"
    /\ viewCall.done
    /\ viewCall.input.base_url = <<"https://example.com", "/">>
    /\ viewCall.output = <<"https://example.com", "/", "status", "/", "500",
                           "?", "foo=bar&baz=1">>

\* C19. Unauthenticated pass-through: for a request without an
\* authenticator (request.auth is None) get_cache_key returns None and
\* allow_request returns True: it reads, writes and increments no cache
\* entry and does not raise Throttled.
C19_NoKeyStep ==
    \A w \in Workers :
        (req[w].auth = NoAuth /\ Steps(w)) =>
            /\ get_cache_key(req[w].auth) = <<>>
            /\ req[w].pc = "throttle"
            /\ req'[w].pc = "dispatch"
            /\ req'[w].ops = <<>>
            /\ req'[w].response = NoResponse
            /\ cache' = cache

C19_NoKeyState ==
    \A w \in Workers :
        req[w].auth = NoAuth =>
            /\ req[w].pc \in { "throttle", "dispatch" }
            /\ req[w].ops = <<>>

C19_PassThrough == []C19_NoKeyState /\ [][C19_NoKeyStep]_vars

\* A caller without a key was let through while the caller with the key
\* k1, at its limit, was refused.
C19_Witness ==
    /\ req[1].auth = NoAuth
    /\ req[1].pc = "dispatch"
    /\ req[1].ops = <<>>
    /\ Rejected(req[2])
    /\ cache[KeyOf(2)].value = RATE_LIMIT

\* C20. Rate-counter state invariant: in every reachable state the entry
\* of a rate-limit key is absent, or present with an integer count >= 1
\* and a time-to-live ttl with 0 < ttl <= PERIOD_IN_SECONDS: no operation
\* of the throttle makes an entry without a time-to-live or with one longer
\* than the window.
C20_CounterState ==
    \A k \in CacheKeys :
        IF cache[k].present
        THEN /\ cache[k].value \in Nat
             /\ cache[k].value >= 1
             /\ 0 < cache[k].ttl
             /\ cache[k].ttl <= 3600
        ELSE cache[k] = Absent

\* A window started by one request and counted up by the next, half of it
\* gone.
C20_Witness ==
    LET k == <<"throttle:api_key:", "k1">> IN
    /\ cache[k].present
    /\ cache[k].value = 2
    /\ cache[k].ttl = PERIOD_IN_SECONDS - TickStep
    /\ \E w \in Workers :
         /\ Admitted(req[w])
         /\ req[w].ops[2].name = "incr"

\* C21. Documented race, double window start: the read of the count and
\* the write after it are two cache operations, so two checks of one key
\* that run at the same time can both read 0 and both do the window-start
\* write; both requests are then admitted while the stored count is 1.
C21_BothStarted(v, w) ==
    /\ v # w
    /\ KeyOf(v) # NoKey
    /\ KeyOf(v) = KeyOf(w)
    /\ req[v].current = 0 /\ req[w].current = 0
    /\ Admitted(req[v]) /\ Admitted(req[w])
    /\ req[v].ops[2].name = "set" /\ req[w].ops[2].name = "set"

C21_DoubleWindowStart ==
    \A v \in Workers, w \in Workers :
        (C21_BothStarted(v, w) /\ ~expired) =>
            /\ cache[KeyOf(v)].present
            /\ cache[KeyOf(v)].value = 1

\* Both workers read 0 before either wrote: no time has passed since the
\* cache was empty, both are admitted, and the count is 1.
C21_Witness ==
    /\ C21_BothStarted(1, 2)
    /\ ~expired
    /\ nRequests = 2
    /\ cache[KeyOf(1)].value = 1
    /\ cache[KeyOf(1)].ttl = PERIOD_IN_SECONDS

\* C22. Documented race, overshoot: several checks of one key that run at
\* the same time can all read the same count c < RATE_LIMIT and all
\* increment; more than RATE_LIMIT requests are then admitted in one window
\* and the stored count is over the limit by more than one. Under
\* concurrency the limit does not bound the admitted requests of a window.
C22_ReadSame(ws) ==
    /\ \A w \in ws :
         /\ Admitted(req[w])
         /\ req[w].ops[2].name = "incr"
    /\ \A v \in ws, w \in ws : req[v].current = req[w].current

\* When the checks made so far ran at the same time, all read the same
\* count and all incremented, each has added one: with nothing expired, the
\* count is what they read plus their number, whatever the limit.
C22_Overshoot ==
    \A ws \in SUBSET InFlight :
        (/\ ws = { w \in InFlight : req[w].pc # "idle" }
         /\ ws # {}
         /\ nRequests = Cardinality(ws)
         /\ C22_ReadSame(ws)
         /\ ~expired) =>
            LET k == get_cache_key(RaceCaller.auth)
                c == req[CHOOSE w \in ws : TRUE].current
            IN  /\ c < RATE_LIMIT
                /\ cache[k].present
                /\ cache[k].value = c + Cardinality(ws)

\* Three checks read RATE_LIMIT - 1 and all three incremented: the count
\* is RATE_LIMIT + 2 and all three are admitted.
C22_Witness ==
    /\ InFlight = { 1, 2, 3 }
    /\ C22_ReadSame(InFlight)
    /\ req[1].current = RATE_LIMIT - 1
    /\ ~expired
    /\ cache[get_cache_key(RaceCaller.auth)].value = RATE_LIMIT + 2

\* C23. First-request write as the test asserts it: when the count read for
\* the key is 0, allow_request returns True, makes no incr call, and calls
\* the cache's set exactly once, with the rate-limit key, the value 0 and a
\* timeout of PERIOD_IN_SECONDS.
C23_FirstCheckDone(w) ==
    /\ CheckDone(req[w])
    /\ req[w].ops[1].name = "get"
    /\ req[w].current = 0

C23_FirstRequestWrite ==
    \A w \in Workers :
        C23_FirstCheckDone(w) =>
            /\ Admitted(req[w])
            /\ \A i \in 1..Len(req[w].ops) : req[w].ops[i].name # "incr"
            /\ Cardinality({ i \in 1..Len(req[w].ops) : req[w].ops[i].name = "set" }) = 1
            /\ req[w].ops[2] = [name |-> "set", key |-> KeyOf(w), value |-> 0,
                                timeout |-> PERIOD_IN_SECONDS]

\* The first check of a key: it read 0, made its one set call and is
\* admitted; the value of the call is 1.
C23_Witness ==
    /\ C23_FirstCheckDone(1)
    /\ Admitted(req[1])
    /\ req[1].ops[2] = [name |-> "set", key |-> KeyOf(1), value |-> 1,
                        timeout |-> PERIOD_IN_SECONDS]

\* C24. Rejection is side-effect free on the cache: a check that is
\* rejected because the count it read is at or over RATE_LIMIT makes no set
\* and no incr call; its steps leave every entry's count and time-to-live
\* as they were, so repeated rejected calls neither raise the count nor
\* extend the window.
C24_RejectingStep(w) ==
    /\ Steps(w)
    /\ \/ req[w].pc = "throttle" /\ OverLimit(ReadCount(cache, KeyOf(w)))
       \/ req[w].pc = "ttl"

C24_FrameStep ==
    \A w \in InFlight :
        C24_RejectingStep(w) =>
            /\ cache' = cache
            /\ \A i \in 1..Len(req'[w].ops) : req'[w].ops[i].name \in { "get", "ttl" }
            /\ req'[w].pc \in { "ttl", "done" }

C24_RejectedCalls ==
    \A w \in InFlight :
        Rejected(req[w]) =>
            /\ req[w].current >= RATE_LIMIT
            /\ \A i \in 1..Len(req[w].ops) : req[w].ops[i].name \in { "get", "ttl" }

C24_RejectionIsFrameFree == []C24_RejectedCalls /\ [][C24_FrameStep]_vars

\* The third call in a row is rejected, and the entry is what it was before
\* the first: at the limit, with its full time-to-live.
C24_Witness ==
    /\ Rejected(req[1])
    /\ nRequests = 3
    /\ \A w \in InFlight : w # 1 => req[w].pc = "idle"
    /\ cache[KeyOf(1)] = [present |-> TRUE, value |-> RATE_LIMIT,
                          ttl |-> PERIOD_IN_SECONDS]

\* C25. Per-key isolation: the check of a request authenticated with one
\* credential reads and writes only the entry throttle:api_key:<its token>;
\* whatever the interleaving, the steps of a request leave the count and the
\* time-to-live stored for every other credential's key as they were, and
\* distinct tokens map to distinct cache keys.
C25_DistinctKeys ==
    \A a \in apiKeys, b \in apiKeys :
        /\ get_cache_key(a) = <<"throttle:api_key:", a.key>>
        /\ a.key # b.key => get_cache_key(a) # get_cache_key(b)

C25_OwnCalls ==
    \A w \in Workers :
        \A i \in 1..Len(req[w].ops) :
            /\ req[w].auth # NoAuth
            /\ req[w].ops[i].key = <<"throttle:api_key:", req[w].auth.key>>

C25_OwnEntryStep ==
    \A w \in Workers :
        Steps(w) =>
            \A k \in DOMAIN cache :
                k # <<"throttle:api_key:", req[w].auth.key>> => cache'[k] = cache[k]

C25_PerKeyIsolation ==
    [](C25_DistinctKeys /\ C25_OwnCalls) /\ [][C25_OwnEntryStep]_vars

\* Two credentials' requests side by side: Client A's check has raised A's
\* entry to the limit, Client B's has started B's window.
C25_Witness ==
    /\ req[1].auth.key = "k1" /\ req[2].auth.key = "k2"
    /\ Admitted(req[1]) /\ Admitted(req[2])
    /\ req[1].ops[2].name = "incr" /\ req[2].ops[2].name = "set"
    /\ cache[<<"throttle:api_key:", "k1">>].value = RATE_LIMIT
    /\ cache[<<"throttle:api_key:", "k2">>] =
         [present |-> TRUE, value |-> 1, ttl |-> PERIOD_IN_SECONDS]

\* C26. Bounded overshoot: if at most N checks of one key are in flight at
\* any time, between their read of the count and their write, the stored
\* count of that key is at most RATE_LIMIT - 1 + N in every reachable state;
\* with N = 1 it never exceeds RATE_LIMIT.
C26_Pending ==
    { w \in InFlight : req[w].pc = "write" /\ req[w].current > 0 }

C26_BoundedOvershoot ==
    LET k == get_cache_key(RaceCaller.auth)
        N == Cardinality(InFlight)
    IN  cache[k].present =>
            /\ cache[k].value + Cardinality(C26_Pending) <= RATE_LIMIT - 1 + N
            /\ N = 1 => cache[k].value <= RATE_LIMIT

\* One check at a time: the count has reached the limit and the next call
\* is rejected.
C26_Witness ==
    /\ Cardinality(InFlight) = 1
    /\ cache[get_cache_key(RaceCaller.auth)].value = RATE_LIMIT
    /\ nRequests >= 2
    /\ Rejected(req[1])

\* C27. Late window-start overwrite: a check that read the count 0 can make
\* its window-start write after other checks of the same key have started
\* the window and raised the count above 1; the late write replaces the
\* stored count by 1 and sets the time-to-live to the full PERIOD_IN_SECONDS
\* again, so within one window the stored count can decrease and the
\* window's expiry can move later.
C27_LateSet(w) ==
    /\ Steps(w)
    /\ req[w].pc = "write"
    /\ req[w].current = 0
    /\ cache[KeyOf(w)].present

\* Whatever the entry holds when the set of a check that read 0 arrives,
\* the entry is 1 with the full period afterwards, and the check is admitted.
C27_LateSetStep ==
    \A w \in InFlight :
        C27_LateSet(w) =>
            /\ cache'[KeyOf(w)] = [present |-> TRUE, value |-> 1,
                                   ttl |-> PERIOD_IN_SECONDS]
            /\ cache'[KeyOf(w)].value <= cache[KeyOf(w)].value
            /\ cache'[KeyOf(w)].ttl >= cache[KeyOf(w)].ttl
            /\ Admitted(req'[w])
            /\ req'[w].ops[2].name = "set"

\* The count goes down, or the time-to-live of an entry goes up, by a late
\* set only.
C27_OnlyLateSet ==
    \A k \in DOMAIN cache :
        (/\ cache[k].present /\ cache'[k].present
         /\ \/ cache'[k].value < cache[k].value
            \/ cache'[k].ttl > cache[k].ttl) =>
            \E w \in InFlight : C27_LateSet(w) /\ KeyOf(w) = k

C27_LateOverwrite == [][C27_LateSetStep /\ C27_OnlyLateSet]_vars

\* Worker 1 read 0 and stalled; two other checks started the window and
\* raised the count to 2; then worker 1's set arrived: the count is back at
\* 1 and the full period lies ahead.
C27_Witness ==
    /\ Cardinality(InFlight) >= 2
    /\ Admitted(req[1]) /\ req[1].current = 0 /\ req[1].ops[2].name = "set"
    /\ Admitted(req[2]) /\ req[2].current = 1 /\ req[2].ops[2].name = "incr"
    /\ nRequests = 3
    /\ ~expired
    /\ cache[KeyOf(1)] = [present |-> TRUE, value |-> 1, ttl |-> PERIOD_IN_SECONDS]

=============================================================================
